---- MODULE Spec2Model ----
(***************************************************************************)
(* A model of the minesweeper engine PyMinesState (pymines.py).            *)
(* The board is the bytearray _b of packed cells, the mine index set       *)
(* _mines and the two flags _win and _lose.  Each public method is an      *)
(* operator giving the effect of one call, applied by one action; private  *)
(* helpers are operators on the board.                                     *)
(***************************************************************************)
EXTENDS Integers, Sequences, FiniteSets, TLC

\* ------------------------------------------------------------------ bounds
MaxRows == 3
MaxCols == 3
MaxCells == 6
MaxMarkIndex == 1
MaxCellsAny == 4

\* --------------------------------------------------------- bit constants
UNCHECKED == 112
CHECKED == 128
FLAGGED == 64
UNSURE == 32
IS_MINE == 16
SURROUNDING_MASK == 15

VARIABLES
    b,          \* _b: the cells, a sequence of bytes; cell i is b[i + 1] (<<>> when no object)
    n_mines,    \* _n_mines
    n_rows,     \* _n_rows
    n_cols,     \* _n_cols
    mines,      \* _mines
    win,        \* _win
    lose,       \* _lose
    err         \* the exception the last call raised, "none" when it returned,
                \* "OutOfRange" when the REPL refused the command

vars == <<b, n_mines, n_rows, n_cols, mines, win, lose, err>>

\* ------------------------------------------------------- integer bit ops
\* v & m for a single-bit mask m
BitAnd(v, m) == ((v \div m) % 2) * m
\* v | m for a single-bit mask m
BitOr(v, m) == IF BitAnd(v, m) = 0 THEN v + m ELSE v
\* v & ~m for a single-bit mask m
BitAndNot(v, m) == IF BitAnd(v, m) = 0 THEN v ELSE v - m

\* ------------------------------------------------------------ the board
get_num_spaces == n_rows * n_cols

get_index(row, col) == row * n_cols + col

\* Python sequence indexing: -len..-1 counts from the end, anything else
\* outside 0..len-1 raises IndexError.
InArray(bd, i) == i >= -Len(bd) /\ i < Len(bd)
PyIndex(bd, i) == IF i < 0 THEN i + Len(bd) ELSE i
Indices(bd) == 0..(Len(bd) - 1)

get_space(bd, i) == bd[PyIndex(bd, i) + 1]
set_space(bd, i, new_value) == [bd EXCEPT ![PyIndex(bd, i) + 1] = new_value]

\* The neighbours of i as the list the code builds: column offset j outermost,
\* row offset k innermost, a column dropped at the left/right border, an index
\* dropped when it is i itself or falls outside range(0, n_spaces).
Offsets == <<-1, 0, 1>>
\* a variant without the left/right border test: an index one step past the
\* end of a row lands on the next row
SurroundingColumn_no_border(i, j, cols, n) ==
    SelectSeq([k \in 1..3 |-> i + Offsets[k] * cols + j],
              LAMBDA new_i : new_i # i /\ new_i \in 0..(n - 1))
SurroundingColumn(i, j, cols, n) ==
    IF (j = -1 /\ i % cols = 0) \/ (j = 1 /\ i % cols = cols - 1)
    THEN <<>>
    ELSE SelectSeq([k \in 1..3 |-> i + Offsets[k] * cols + j],
                   LAMBDA new_i : new_i # i /\ new_i \in 0..(n - 1))
\* a variant that leaves out the diagonal neighbours
get_surrounding_orthogonal(i, cols, n) ==
    SelectSeq(SurroundingColumn(i, -1, cols, n), LAMBDA new_i : new_i = i - 1)
        \o SurroundingColumn(i, 0, cols, n)
        \o SelectSeq(SurroundingColumn(i, 1, cols, n), LAMBDA new_i : new_i = i + 1)
get_surrounding(i, cols, n) ==
    SurroundingColumn(i, -1, cols, n) \o SurroundingColumn(i, 0, cols, n)
        \o SurroundingColumn(i, 1, cols, n)

is_mine(bd, i) == BitAnd(get_space(bd, i), IS_MINE) # 0
is_flagged(bd, i) == BitAnd(get_space(bd, i), FLAGGED) # 0
is_unsure(bd, i) == BitAnd(get_space(bd, i), UNSURE) # 0
is_checked(bd, i) == BitAnd(get_space(bd, i), CHECKED) # 0
adjacent_mines(bd, i) == get_space(bd, i) % (SURROUNDING_MASK + 1)

set_flagged(bd, i, flagged) ==
    LET old == get_space(bd, i)
    IN  set_space(bd, i, IF flagged THEN BitOr(old, FLAGGED) ELSE BitAndNot(old, FLAGGED))

set_unsure(bd, i, unsure) ==
    LET old == get_space(bd, i)
    IN  set_space(bd, i, IF unsure THEN BitOr(old, UNSURE) ELSE BitAndNot(old, UNSURE))

\* a variant that flips the CHECKED bit (old ^ CHECKED)
set_checked_toggles(bd, i) ==
    LET old == get_space(bd, i)
    IN  set_space(bd, i, IF BitAnd(old, CHECKED) = 0 THEN old + CHECKED ELSE old - CHECKED)
\* a variant that stores CHECKED alone, dropping the other bits of the cell
set_checked_overwrites(bd, i) == set_space(bd, i, CHECKED)
set_checked(bd, i) == set_space(bd, i, BitOr(get_space(bd, i), CHECKED))

get_unchecked(bd) == {i \in Indices(bd) : ~is_checked(bd, i)}

\* _set_mine: the cell becomes IS_MINE, every neighbour that is not in the
\* mine set is incremented.
RECURSIVE IncrementAll(_, _, _)
IncrementAll(bd, surr, ms) ==
    IF surr = <<>> THEN bd
    ELSE LET s == Head(surr)
         IN  IncrementAll(IF s \notin ms THEN set_space(bd, s, get_space(bd, s) + 1) ELSE bd,
                          Tail(surr), ms)
set_mine(bd, i, cols, ms) ==
    IncrementAll(set_space(bd, i, IS_MINE), get_surrounding(i, cols, Len(bd)), ms)

\* the loop "for m in self._mines: self._set_mine(m)", in ascending order
RECURSIVE PopulateMines(_, _, _, _)
PopulateMines(bd, todo, cols, ms) ==
    IF todo = {} THEN bd
    ELSE LET m == CHOOSE x \in todo : \A y \in todo : x <= y
         IN  PopulateMines(set_mine(bd, m, cols, ms), todo \ {m}, cols, ms)

\* _bfs: q is a set and q.pop() takes an arbitrary element; the policy names
\* which one is taken.
PopPolicies == {"lowest", "highest"}
Pop(q, policy) ==
    IF policy = "lowest" THEN CHOOSE x \in q : \A y \in q : x <= y
    ELSE CHOOSE x \in q : \A y \in q : x >= y
SeqToSet(s) == {s[k] : k \in DOMAIN s}
\* a variant whose filter keeps flagged neighbours out of the work set
RECURSIVE BfsLoop_skips_flagged(_, _, _, _)
BfsLoop_skips_flagged(bd, q, cols, policy) ==
    IF q = {} THEN bd
    ELSE LET i == Pop(q, policy)
             rest == q \ {i}
             bd1 == set_checked(bd, i)
         IN  IF adjacent_mines(bd1, i) # 0
             THEN BfsLoop_skips_flagged(bd1, rest, cols, policy)
             ELSE BfsLoop_skips_flagged(bd1,
                          rest \cup {x \in SeqToSet(get_surrounding(i, cols, Len(bd))) :
                                        ~is_checked(bd1, x) /\ ~is_flagged(bd1, x)},
                          cols, policy)
RECURSIVE BfsLoop(_, _, _, _)
BfsLoop(bd, q, cols, policy) ==
    IF q = {} THEN bd
    ELSE LET i == Pop(q, policy)
             rest == q \ {i}
             bd1 == set_checked(bd, i)
         IN  IF adjacent_mines(bd1, i) # 0
             THEN BfsLoop(bd1, rest, cols, policy)
             ELSE BfsLoop(bd1,
                          rest \cup {x \in SeqToSet(get_surrounding(i, cols, Len(bd))) :
                                        ~is_checked(bd1, x)},
                          cols, policy)
\* a variant that starts the traversal from the root's neighbours as well
bfs_from_neighbours(bd, root_i, cols, policy) ==
    BfsLoop(bd, {root_i} \cup SeqToSet(get_surrounding(root_i, cols, Len(bd))), cols, policy)
\* a variant that marks the root and never looks at its neighbours
bfs_root_only(bd, root_i, cols, policy) == set_checked(bd, root_i)
bfs(bd, root_i, cols, policy) == BfsLoop(bd, {root_i}, cols, policy)

\* One iteration of _bfs's loop when q.pop() returns i: the board and the
\* work set after it.
\* a variant that leaves the loop (break) at a cell with a positive count
BfsStep_breaks(bd, q, i, cols) ==
    LET rest == q \ {i}
        bd1 == set_checked(bd, i)
    IN  IF adjacent_mines(bd1, i) # 0
        THEN [b |-> bd1, q |-> {}]
        ELSE [b |-> bd1,
              q |-> rest \cup {x \in SeqToSet(get_surrounding(i, cols, Len(bd))) :
                                  ~is_checked(bd1, x)}]
\* a variant whose filter also lets revealed neighbours with a positive count
\* back into the work set
BfsStep_requeues_numbered(bd, q, i, cols) ==
    LET rest == q \ {i}
        bd1 == set_checked(bd, i)
    IN  IF adjacent_mines(bd1, i) # 0
        THEN [b |-> bd1, q |-> rest]
        ELSE [b |-> bd1,
              q |-> rest \cup {x \in SeqToSet(get_surrounding(i, cols, Len(bd))) :
                                  ~is_checked(bd1, x) \/ adjacent_mines(bd1, x) # 0}]
BfsStep(bd, q, i, cols) ==
    LET rest == q \ {i}
        bd1 == set_checked(bd, i)
    IN  IF adjacent_mines(bd1, i) # 0
        THEN [b |-> bd1, q |-> rest]
        ELSE [b |-> bd1,
              q |-> rest \cup {x \in SeqToSet(get_surrounding(i, cols, Len(bd))) :
                                  ~is_checked(bd1, x)}]
\* Every run of _bfs's loop from work set q: q.pop() may return any element,
\* so each element of q starts a branch.  A run is recorded when the work set
\* is empty, as the final board and the cells in the order they were popped.
RECURSIVE BfsRuns(_, _, _, _)
BfsRuns(bd, q, cols, popped) ==
    IF q = {} THEN {[b |-> bd, popped |-> popped]}
    ELSE UNION {LET s == BfsStep(bd, q, i, cols)
                IN  BfsRuns(s.b, s.q, cols, Append(popped, i)) : i \in q}

\* tinymines.py, GameState: _get_index, _get_surrounding and _bfs.
tiny_get_index(x, y, size_y) == x * size_y + y
\* _get_surrounding has the text of pymines's with _size_x for _n_cols
tiny_get_surrounding(i, size_x, n) ==
    SurroundingColumn(i, -1, size_x, n) \o SurroundingColumn(i, 0, size_x, n)
        \o SurroundingColumn(i, 1, size_x, n)
\* _bfs: q is a list, q.pop(0) takes its head and q.extend appends the
\* unchecked neighbours (a cell may be in the list more than once)
RECURSIVE tiny_BfsLoop(_, _, _)
tiny_BfsLoop(bd, q, size_x) ==
    IF q = <<>> THEN bd
    ELSE LET i == Head(q)
             bd1 == set_checked(bd, i)
         IN  IF adjacent_mines(bd1, i) # 0
             THEN tiny_BfsLoop(bd1, Tail(q), size_x)
             ELSE tiny_BfsLoop(bd1,
                               Tail(q) \o SelectSeq(tiny_get_surrounding(i, size_x, Len(bd)),
                                                    LAMBDA x : ~is_checked(bd1, x)),
                               size_x)
tiny_bfs(bd, root_i, size_x) == tiny_BfsLoop(bd, <<root_i>>, size_x)

\* a variant that tests inclusion instead of equality
check_win_state_subset(bd, ms) == ms \subseteq get_unchecked(bd)
check_win_state(bd, ms) == ms = get_unchecked(bd)

\* ------------------------------------------------------------ construction
NoObject == err = "ValueError"

Construct(rows, cols, nm, l) ==
    /\ n_rows = rows
    /\ n_cols = cols
    /\ n_mines = nm
    /\ mines = l
    /\ b = PopulateMines([i \in 1..(rows * cols) |-> 0], l, cols, l)
    /\ win = FALSE
    /\ lose = FALSE
    /\ err = "none"

ConstructFails(rows, cols, nm) ==
    /\ n_rows = rows
    /\ n_cols = cols
    /\ n_mines = nm
    /\ mines = {}
    /\ b = <<>>
    /\ win = FALSE
    /\ lose = FALSE
    /\ err = "ValueError"

\* a variant whose range test is off by one at both ends
New_off_by_one(rows, cols, nm) ==
    LET n_spaces == rows * cols
    IN  IF nm \notin 0..n_spaces
        THEN ConstructFails(rows, cols, nm)
        ELSE \E l \in {s \in SUBSET (0..(n_spaces - 1)) : Cardinality(s) = nm} :
                Construct(rows, cols, nm, l)
\* __init__(n_rows, n_cols, n_mines): ValueError unless n_mines is in
\* range(1, n_spaces); random.sample draws any set l of n_mines indices.
New(rows, cols, nm) ==
    LET n_spaces == rows * cols
    IN  IF nm \notin 1..(n_spaces - 1)
        THEN ConstructFails(rows, cols, nm)
        ELSE \E l \in {s \in SUBSET (0..(n_spaces - 1)) : Cardinality(s) = nm} :
                Construct(rows, cols, nm, l)

Dims(cells) == {d \in (0..MaxRows) \X (0..MaxCols) : d[1] * d[2] <= cells}

Init == \E d \in Dims(MaxCells), nm \in 0..(MaxCells + 1) : New(d[1], d[2], nm)

\* ------------------------------------------------------ the public methods
\* Each method is an operator from the current object and its arguments to
\* what the call leaves behind: the board, the two flags and the exception
\* raised ("none" when the call returns).  _get_index checks nothing, so the
\* first access to self._b[i] is where a bad index raises IndexError.
Effect(bd, w, l, e) == [b |-> bd, win |-> w, lose |-> l, err |-> e]
Raise == Effect(b, win, lose, "IndexError")

\* a variant that marks the clicked mine as checked before losing
click_space_checks_mine(row, col, policy) ==
    LET i == get_index(row, col)
    IN  IF ~InArray(b, i) THEN Raise
        ELSE IF is_mine(b, i) THEN Effect(set_checked(b, i), win, TRUE, "none")
        ELSE LET bd == bfs(b, i, n_cols, policy)
             IN  Effect(bd, check_win_state(bd, mines), lose, "none")
click_space(row, col, policy) ==
    LET i == get_index(row, col)
    IN  IF ~InArray(b, i) THEN Raise
        ELSE IF is_mine(b, i) THEN Effect(b, win, TRUE, "none")
        ELSE LET bd == bfs(b, i, n_cols, policy)
             IN  Effect(bd, check_win_state(bd, mines), lose, "none")

click_clear_board(bd, i) == set_unsure(set_flagged(bd, i, FALSE), i, FALSE)

\* a variant that sets the flag without clearing the question mark first
click_flag_no_clear(row, col) ==
    LET i == get_index(row, col)
    IN  IF ~InArray(b, i) THEN Raise
        ELSE Effect(set_flagged(b, i, TRUE), win, lose, "none")
click_flag(row, col) ==
    LET i == get_index(row, col)
    IN  IF ~InArray(b, i) THEN Raise
        ELSE Effect(set_flagged(click_clear_board(b, i), i, TRUE), win, lose, "none")

click_unsure(row, col) ==
    LET i == get_index(row, col)
    IN  IF ~InArray(b, i) THEN Raise
        ELSE Effect(set_unsure(click_clear_board(b, i), i, TRUE), win, lose, "none")

click_clear(row, col) ==
    LET i == get_index(row, col)
    IN  IF ~InArray(b, i) THEN Raise
        ELSE Effect(click_clear_board(b, i), win, lose, "none")

is_win_state == win
is_lose_state == lose

\* get_board: the symbol shown for each cell, by the first test that matches.
\* a variant that shows a mine whether or not the game is over
get_board_cell_ignores_game_over(bd, w, l, i) ==
    IF is_mine(bd, i) THEN IS_MINE
    ELSE IF is_checked(bd, i) THEN adjacent_mines(bd, i)
    ELSE IF is_flagged(bd, i) THEN FLAGGED
    ELSE IF is_unsure(bd, i) THEN UNSURE
    ELSE UNCHECKED
\* a variant that tests the marks before the revealed bit
get_board_cell_marks_first(bd, w, l, i) ==
    LET game_over == w \/ l
    IN  IF game_over /\ is_mine(bd, i) THEN IS_MINE
        ELSE IF is_flagged(bd, i) THEN FLAGGED
        ELSE IF is_unsure(bd, i) THEN UNSURE
        ELSE IF is_checked(bd, i) THEN adjacent_mines(bd, i)
        ELSE UNCHECKED
get_board_cell(bd, w, l, i) ==
    LET game_over == w \/ l
    IN  IF game_over /\ is_mine(bd, i) THEN IS_MINE
        ELSE IF is_checked(bd, i) THEN adjacent_mines(bd, i)
        ELSE IF is_flagged(bd, i) THEN FLAGGED
        ELSE IF is_unsure(bd, i) THEN UNSURE
        ELSE UNCHECKED
\* get_board(formatted=False): the flat list
get_board_flat(bd, w, l) == [k \in 1..Len(bd) |-> get_board_cell(bd, w, l, k - 1)]
\* get_board(): the flat list cut into rows of cols elements
get_board(bd, w, l, cols) ==
    LET board == get_board_flat(bd, w, l)
    IN  [r \in 1..(Len(bd) \div cols) |-> SubSeq(board, (r - 1) * cols + 1, r * cols)]

\* get_mines(): each mine index i as the pair (i // n_rows, i % n_rows)
get_mines(ms, rows) == {<<i \div rows, i % rows>> : i \in ms}
\* get_mines(formatted=False): the mine indices
get_mines_flat(ms) == ms

\* ------------------------------------------------------------ the actions
Apply(r) ==
    /\ b' = r.b
    /\ win' = r.win
    /\ lose' = r.lose
    /\ err' = r.err
    /\ UNCHANGED <<n_mines, n_rows, n_cols, mines>>

\* The model places and removes marks only on the cells 0..MaxMarkIndex (a
\* call that raises IndexError reaches no cell and is always taken).
MayMark(i) == ~InArray(b, i) \/ PyIndex(b, i) <= MaxMarkIndex

\* the calls a front end makes with coordinates inside the grid
Rows == 0..(n_rows - 1)
Cols == 0..(n_cols - 1)
ClickSpace ==
    /\ ~NoObject
    /\ \E row \in Rows, col \in Cols, policy \in PopPolicies : Apply(click_space(row, col, policy))
ClickFlag ==
    /\ ~NoObject
    /\ \E row \in Rows, col \in Cols : MayMark(get_index(row, col)) /\ Apply(click_flag(row, col))
ClickUnsure ==
    /\ ~NoObject
    /\ \E row \in Rows, col \in Cols : MayMark(get_index(row, col)) /\ Apply(click_unsure(row, col))
ClickClear ==
    /\ ~NoObject
    /\ \E row \in Rows, col \in Cols : MayMark(get_index(row, col)) /\ Apply(click_clear(row, col))

Next == ClickSpace \/ ClickFlag \/ ClickUnsure \/ ClickClear

Spec == Init /\ [][Next]_vars

\* the same calls with any coordinates, up to one step beyond the grid on
\* each side (the methods themselves check nothing)
AnyRows == (-1)..n_rows
AnyCols == (-1)..n_cols
ClickSpaceAny ==
    /\ ~NoObject
    /\ \E row \in AnyRows, col \in AnyCols, policy \in PopPolicies : Apply(click_space(row, col, policy))
ClickFlagAny ==
    /\ ~NoObject
    /\ \E row \in AnyRows, col \in AnyCols : MayMark(get_index(row, col)) /\ Apply(click_flag(row, col))
ClickUnsureAny ==
    /\ ~NoObject
    /\ \E row \in AnyRows, col \in AnyCols : MayMark(get_index(row, col)) /\ Apply(click_unsure(row, col))
ClickClearAny ==
    /\ ~NoObject
    /\ \E row \in AnyRows, col \in AnyCols : MayMark(get_index(row, col)) /\ Apply(click_clear(row, col))

NextAny == ClickSpaceAny \/ ClickFlagAny \/ ClickUnsureAny \/ ClickClearAny

InitAny == \E d \in Dims(MaxCellsAny), nm \in 0..(MaxCellsAny + 1) : New(d[1], d[2], nm)

SpecAny == InitAny /\ [][NextAny]_vars

\* ----------------------------------------------------- pymines.py: the REPL
\* One iteration of game_loop's while loop for a command with two integer
\* coordinates.  The loop is left once the state is a win or a loss, and an
\* IndexError from the engine is not caught, so it ends the program; "q",
\* "help" and a command without coordinates touch no state.  A rejected
\* command leaves the state as it is and err records the message printed.
Commands == {"check", "flag", "unsure", "clear"}
Rejected == Effect(b, win, lose, "OutOfRange")
game_loop(cmd, row, col, policy) ==
    IF ~(row \in 0..(n_rows - 1) \/ col \in 0..(n_cols - 1)) THEN Rejected
    ELSE IF cmd = "check" THEN click_space(row, col, policy)
    ELSE IF cmd = "flag" THEN click_flag(row, col)
    ELSE IF cmd = "unsure" THEN click_unsure(row, col)
    ELSE click_clear(row, col)

LoopRunning == ~NoObject /\ ~is_lose_state /\ ~is_win_state /\ err # "IndexError"
LoopCheck ==
    /\ LoopRunning
    /\ \E row \in AnyRows, col \in AnyCols, policy \in PopPolicies :
          Apply(game_loop("check", row, col, policy))
LoopFlag ==
    /\ LoopRunning
    /\ \E row \in AnyRows, col \in AnyCols :
          MayMark(get_index(row, col)) /\ Apply(game_loop("flag", row, col, "lowest"))
LoopUnsure ==
    /\ LoopRunning
    /\ \E row \in AnyRows, col \in AnyCols :
          MayMark(get_index(row, col)) /\ Apply(game_loop("unsure", row, col, "lowest"))
LoopClear ==
    /\ LoopRunning
    /\ \E row \in AnyRows, col \in AnyCols :
          MayMark(get_index(row, col)) /\ Apply(game_loop("clear", row, col, "lowest"))

NextLoop == LoopCheck \/ LoopFlag \/ LoopUnsure \/ LoopClear

SpecLoop == InitAny /\ [][NextLoop]_vars

\* ------------------------------------------------ tinymines.py: GameState
\* The same variables hold a GameState: n_rows is _size_x, n_cols is _size_y.
\* Its helpers have the text of PyMinesState's, except _get_index (stride
\* _size_y), _get_surrounding (modulus and stride _size_x) and _bfs (a list).
tiny_Construct(size_x, size_y, nm, l) ==
    /\ n_rows = size_x
    /\ n_cols = size_y
    /\ n_mines = nm
    /\ mines = l
    /\ b = PopulateMines([i \in 1..(size_x * size_y) |-> 0], l, size_x, l)
    /\ win = FALSE
    /\ lose = FALSE
    /\ err = "none"

tiny_New(size_x, size_y, nm) ==
    LET n_spaces == size_x * size_y
    IN  IF nm \notin 1..(n_spaces - 1)
        THEN ConstructFails(size_x, size_y, nm)
        ELSE \E l \in {s \in SUBSET (0..(n_spaces - 1)) : Cardinality(s) = nm} :
                tiny_Construct(size_x, size_y, nm, l)

InitTiny == \E d \in Dims(MaxCells), nm \in 0..(MaxCells + 1) : tiny_New(d[1], d[2], nm)

tiny_click_space(x, y) ==
    LET i == tiny_get_index(x, y, n_cols)
    IN  IF ~InArray(b, i) THEN Raise
        ELSE IF is_mine(b, i) THEN Effect(b, win, TRUE, "none")
        ELSE LET bd == tiny_bfs(b, i, n_rows)
             IN  Effect(bd, check_win_state(bd, mines), lose, "none")

tiny_click_flag(x, y) ==
    LET i == tiny_get_index(x, y, n_cols)
    IN  IF ~InArray(b, i) THEN Raise
        ELSE Effect(set_flagged(click_clear_board(b, i), i, TRUE), win, lose, "none")

tiny_click_unsure(x, y) ==
    LET i == tiny_get_index(x, y, n_cols)
    IN  IF ~InArray(b, i) THEN Raise
        ELSE Effect(set_unsure(click_clear_board(b, i), i, TRUE), win, lose, "none")

tiny_click_clear(x, y) ==
    LET i == tiny_get_index(x, y, n_cols)
    IN  IF ~InArray(b, i) THEN Raise
        ELSE Effect(click_clear_board(b, i), win, lose, "none")

\* the calls with coordinates inside the board: x below _size_x, y below _size_y
TinyClickSpace ==
    /\ ~NoObject
    /\ \E x \in Rows, y \in Cols : Apply(tiny_click_space(x, y))
TinyClickFlag ==
    /\ ~NoObject
    /\ \E x \in Rows, y \in Cols :
          MayMark(tiny_get_index(x, y, n_cols)) /\ Apply(tiny_click_flag(x, y))
TinyClickUnsure ==
    /\ ~NoObject
    /\ \E x \in Rows, y \in Cols :
          MayMark(tiny_get_index(x, y, n_cols)) /\ Apply(tiny_click_unsure(x, y))
TinyClickClear ==
    /\ ~NoObject
    /\ \E x \in Rows, y \in Cols :
          MayMark(tiny_get_index(x, y, n_cols)) /\ Apply(tiny_click_clear(x, y))

NextTiny == TinyClickSpace \/ TinyClickFlag \/ TinyClickUnsure \/ TinyClickClear

SpecTiny == InitTiny /\ [][NextTiny]_vars

\* ------------------------------------------------ reference definitions
\* Geometry and mine counts taken from the row-major grid itself, not from
\* the stored bytes: what the properties below compare the engine against.
Cells == 0..(n_rows * n_cols - 1)
RowOf(i) == i \div n_cols
ColOf(i) == i % n_cols
Abs(x) == IF x < 0 THEN -x ELSE x
Moore(i) == {j \in Cells : j # i /\ Abs(RowOf(i) - RowOf(j)) <= 1 /\ Abs(ColOf(i) - ColOf(j)) <= 1}
MineCount(i) == Cardinality(Moore(i) \cap mines)
InGrid(row, col) == row >= 0 /\ row < n_rows /\ col >= 0 /\ col < n_cols
CheckedSet(bd) == {i \in Indices(bd) : get_space(bd, i) \div CHECKED = 1}
FlaggedSet(bd) == {i \in Indices(bd) : (get_space(bd, i) \div FLAGGED) % 2 = 1}
UnsureSet(bd) == {i \in Indices(bd) : (get_space(bd, i) \div UNSURE) % 2 = 1}

\* the zero-count cells joined to start by a chain of neighbouring zero-count cells
RECURSIVE ZeroClosure(_)
ZeroClosure(z) ==
    LET more == {j \in Cells \ (z \cup mines) : MineCount(j) = 0 /\ Moore(j) \cap z # {}}
    IN  IF more = {} THEN z ELSE ZeroClosure(z \cup more)
Region(start) ==
    IF MineCount(start) > 0 THEN {start}
    ELSE LET z == ZeroClosure({start})
         IN  z \cup UNION {Moore(j) : j \in z}

\* every call of each kind with the given coordinates
SpaceCalls(row, col) == {click_space(row, col, policy) : policy \in PopPolicies}
MarkCalls(row, col) == {click_flag(row, col), click_unsure(row, col)}
AllCalls(row, col) == SpaceCalls(row, col) \cup MarkCalls(row, col) \cup {click_clear(row, col)}

\* ------------------------------------------------------------------ claims

\* C1: in every state reached by in-range calls, is_win_state() is true
\* exactly when the set of unrevealed cells equals the mine set.
C1_WinIffUnrevealedIsMines ==
    ~NoObject => (is_win_state <=> (Cells \ CheckedSet(b)) = mines)
C1_Witness ==
    /\ is_win_state
    /\ n_rows = 3 /\ n_cols = 2 /\ n_mines = 1
    /\ Cardinality(CheckedSet(b)) = 5

\* C2: click_space on a mine sets the outcome to Lost and changes no cell;
\* the win flag is left as it was.
C2_MineClickChangesNoCell ==
    ~NoObject =>
        \A row \in Rows, col \in Cols :
            get_index(row, col) \in mines
                => \A r \in SpaceCalls(row, col) : r.lose /\ r.b = b /\ r.win = win
C2_Witness ==
    /\ is_lose_state
    /\ ~is_win_state
    /\ CheckedSet(b) # {}
    /\ FlaggedSet(b) # {}

\* C3 as stated: after click_space on a non-mine start cell the newly revealed
\* cells are exactly start's region (start alone when its count is positive).
C3_NewlyRevealedIsRegion ==
    ~NoObject =>
        \A row \in Rows, col \in Cols :
            get_index(row, col) \notin mines
                => \A r \in SpaceCalls(row, col) :
                      (CheckedSet(r.b) \ CheckedSet(b)) = Region(get_index(row, col))

\* C3 amended: after click_space on a non-mine start cell the revealed set is
\* the revealed set before the call together with exactly start's region, so
\* the newly revealed cells are the region's cells not revealed before.
C3_RevealedGrowsByRegion ==
    ~NoObject =>
        \A row \in Rows, col \in Cols :
            get_index(row, col) \notin mines
                => \A r \in SpaceCalls(row, col) :
                      CheckedSet(r.b) = CheckedSet(b) \cup Region(get_index(row, col))
C3_Witness ==
    /\ ~is_win_state
    /\ \E i \in CheckedSet(b) : MineCount(i) = 0 /\ Moore(i) \subseteq CheckedSet(b)
    /\ \E i \in CheckedSet(b) : MineCount(i) > 0

\* C4: in every state reached by in-range calls no mine cell is revealed.
C4_NoMineRevealed ==
    \A i \in mines : i \notin CheckedSet(b)
C4_Witness ==
    /\ Cardinality(CheckedSet(b)) >= 3
    /\ Cardinality(mines) >= 2

\* C5 as stated: a call with a coordinate outside the grid ends in an error
\* and leaves the board and the outcome unchanged.
C5_OutOfRangeRejected ==
    ~NoObject =>
        \A row \in AnyRows, col \in AnyCols :
            ~InGrid(row, col)
                => \A r \in AllCalls(row, col) :
                      r.err # "none" /\ r.b = b /\ r.win = win /\ r.lose = lose

\* C6 as stated: once the outcome is terminal no call changes any cell.
C6_TerminalCallsAreNoOps ==
    [][(is_win_state \/ is_lose_state) => b' = b]_vars

\* C7 as stated: Won and Lost are absorbing and never hold together.
C7_WonLostExclusive ==
    /\ [](~(is_win_state /\ is_lose_state))
    /\ [][(win => ~lose') /\ (lose => ~win')]_vars

\* C8 as stated: click_flag and click_unsure on a revealed cell change nothing.
C8_MarkOnRevealedIsNoOp ==
    ~NoObject =>
        \A row \in Rows, col \in Cols :
            get_index(row, col) \in CheckedSet(b)
                => \A r \in MarkCalls(row, col) : r.b = b

\* C9: no cell is ever both flagged and unsure; click_flag leaves its target
\* flagged and not unsure, click_unsure unsure and not flagged, click_clear
\* neither (revealed or not), and click_space changes no mark.
\* the FLAGGED and UNSURE bits of cell i: 0, UNSURE, FLAGGED or both
MarkBits(bd, i) == (get_space(bd, i) % CHECKED) - (get_space(bd, i) % UNSURE)
SameMarks(bd1, bd2, cells) == \A j \in cells : MarkBits(bd1, j) = MarkBits(bd2, j)
C9_MarksExclusive ==
    /\ \A j \in Indices(b) : MarkBits(b, j) # FLAGGED + UNSURE
    /\ ~NoObject =>
        \A row \in Rows, col \in Cols :
            LET i == get_index(row, col)
                flag == click_flag(row, col).b
                unsure == click_unsure(row, col).b
                clear == click_clear(row, col).b
            IN  /\ MarkBits(flag, i) = FLAGGED
                /\ SameMarks(flag, b, Cells \ {i})
                /\ MarkBits(unsure, i) = UNSURE
                /\ SameMarks(unsure, b, Cells \ {i})
                /\ MarkBits(clear, i) = 0
                /\ SameMarks(clear, b, Cells \ {i})
                /\ \A r \in SpaceCalls(row, col) : SameMarks(r.b, b, Cells)
C9_Witness ==
    /\ \E i \in UnsureSet(b) : i \in CheckedSet(b)
    /\ is_win_state

\* C10: construction with n_mines outside 1..rows*cols-1 fails and yields no
\* object; inside that range it yields a mine set of exactly n_mines distinct
\* in-range indices.
C10_ConstructionChecksMineCount ==
    LET n_spaces == n_rows * n_cols
    IN  IF n_mines \in 1..(n_spaces - 1)
        THEN /\ ~NoObject
             /\ Len(b) = n_spaces
             /\ mines \subseteq 0..(n_spaces - 1)
             /\ Cardinality(mines) = n_mines
             /\ \A i \in 0..(n_spaces - 1) : i \in mines <=> (get_space(b, i) \div IS_MINE) % 2 = 1
        ELSE NoObject /\ b = <<>> /\ mines = {}
C10_Witness ==
    /\ err = "ValueError"
    /\ n_rows = 2 /\ n_cols = 3
    /\ n_mines = n_rows * n_cols

\* C11: every non-mine cell's stored count is the number of mines among its
\* Moore neighbours clipped at the grid border (no wrap from the end of one
\* row to the start of the next), and lies in 0..8, on square and non-square
\* boards alike.
CountIsMooreMineCountHere ==
    ~NoObject =>
        \A i \in Cells \ mines :
            /\ adjacent_mines(b, i) = MineCount(i)
            /\ adjacent_mines(b, i) \in 0..8
\* C11: in every reachable state, the counts are the Moore mine counts.
C11_CountIsMooreMineCount == []CountIsMooreMineCountHere
C11_Witness ==
    /\ n_rows = 2 /\ n_cols = 3
    /\ mines = {3, 4}
    /\ adjacent_mines(b, 1) = 2
    /\ adjacent_mines(b, 2) = 1
    /\ CheckedSet(b) = {}

\* C12: while the game is in progress get_board exposes no mine: no element
\* is IS_MINE, a mine cell shows UNCHECKED, FLAGGED or UNSURE as its own marks
\* say, and the output is the same for every other layout of the n_mines
\* mines over the unrevealed cells that has the same revealed cells with the
\* same counts and the same marks.
InProgress == ~NoObject /\ ~is_win_state /\ ~is_lose_state
\* bd with the unrevealed cells laid out anew: the cells of ms are the mines,
\* the other unrevealed cells count their neighbours in ms; the marks and the
\* revealed cells stay
Relaid(bd, ms) ==
    [j \in 1..Len(bd) |->
        IF bd[j] \div CHECKED = 1 THEN bd[j]
        ELSE MarkBits(bd, j - 1)
                + (IF j - 1 \in ms THEN IS_MINE ELSE Cardinality(Moore(j - 1) \cap ms))]
BoardHidesMinesHere ==
    InProgress =>
        LET out == get_board(b, win, lose, n_cols)
            flat == get_board_flat(b, win, lose)
        IN  /\ \A i \in Cells : out[RowOf(i) + 1][ColOf(i) + 1] # IS_MINE
            /\ \A i \in mines :
                  out[RowOf(i) + 1][ColOf(i) + 1]
                      = (IF i \in FlaggedSet(b) THEN FLAGGED
                         ELSE IF i \in UnsureSet(b) THEN UNSURE ELSE UNCHECKED)
            /\ \A ms \in SUBSET (Cells \ CheckedSet(b)) :
                  Cardinality(ms) = n_mines
                      => get_board_flat(Relaid(b, ms), win, lose) = flat
\* C12: in every reachable state, get_board hides the mines while the game is in progress.
C12_BoardHidesMines == []BoardHidesMinesHere
C12_Witness ==
    /\ InProgress
    /\ CheckedSet(b) # {}
    /\ \E i \in mines : i \in FlaggedSet(b)
    /\ \E i \in mines : i \in UnsureSet(b)

\* C13: get_board shows each cell by the first rule that applies: IS_MINE for
\* a mine once the game is won or lost (flagged or not), else the adjacency
\* count for a revealed cell (marked or not), else FLAGGED, else UNSURE, else
\* UNCHECKED.
BoardSymbolPriorityHere ==
    ~NoObject =>
        LET out == get_board(b, win, lose, n_cols)
        IN  /\ Len(out) = n_rows
            /\ \A row \in Rows : Len(out[row + 1]) = n_cols
            /\ \A row \in Rows, col \in Cols :
                  LET i == row * n_cols + col
                  IN  out[row + 1][col + 1] =
                        (IF (win \/ lose) /\ i \in mines THEN IS_MINE
                         ELSE IF i \in CheckedSet(b) THEN MineCount(i)
                         ELSE IF i \in FlaggedSet(b) THEN FLAGGED
                         ELSE IF i \in UnsureSet(b) THEN UNSURE
                         ELSE UNCHECKED)
C14_GetMinesIsRowMajor ==
    ~NoObject =>
        LET out == get_mines(mines, n_rows)
        IN  /\ {get_index(p[1], p[2]) : p \in out} = get_mines_flat(mines)
            /\ \A p \in out : InGrid(p[1], p[2])

\* C15: the result of a reveal does not depend on the order in which _bfs
\* takes cells from its work set: from every state and every non-mine start
\* cell, every pop order of pymines's set, the two orders click_space is
\* modelled with and the FIFO order of tinymines's list end in the same
\* board, and the outcome click_space computes is the one that board gives.
RevealIndependentOfPopOrderHere ==
    ~NoObject =>
        \A row \in Rows, col \in Cols :
            LET i == get_index(row, col)
                fifo == tiny_bfs(b, i, n_cols)
            IN  i \notin mines =>
                    /\ {r.b : r \in BfsRuns(b, {i}, n_cols, <<>>)} = {fifo}
                    /\ \A r \in SpaceCalls(row, col) :
                          r.b = fifo /\ r.win = check_win_state(fifo, mines)
\* C15: in every reachable state, a reveal does not depend on the pop order.
C15_RevealIndependentOfPopOrder == []RevealIndependentOfPopOrderHere
\* a state from which one click has several pop orders: an unrevealed cell
\* with count 0 that has at least three unrevealed neighbours
C15_Witness ==
    /\ InProgress
    /\ CheckedSet(b) # {}
    /\ \E i \in Cells \ (mines \cup CheckedSet(b)) :
          /\ MineCount(i) = 0
          /\ Cardinality(Moore(i) \ CheckedSet(b)) >= 3
          /\ Cardinality(BfsRuns(b, {i}, n_cols, <<>>)) >= 6

\* C16: a reveal is idempotent: in every state, click_space on a cell that is
\* already revealed changes no cell and not the outcome.  The state a first
\* click_space on a non-mine cell leaves is such a state, so a second one on
\* the same cell leaves the board and the outcome as the first one left them.
RevealIdempotentHere ==
    ~NoObject =>
        \A row \in Rows, col \in Cols :
            get_index(row, col) \in CheckedSet(b)
                => \A r \in SpaceCalls(row, col) :
                      r.b = b /\ r.win = win /\ r.lose = lose
\* C16: in every reachable state, click_space on a revealed cell changes nothing.
C16_RevealIdempotent == []RevealIdempotentHere
C16_Witness ==
    /\ \E i \in CheckedSet(b) : MineCount(i) = 0
    /\ \E i \in CheckedSet(b) : MineCount(i) > 0
    /\ CheckedSet(b) \cup mines # Cells
    /\ UnsureSet(b) # {}

\* C17: every flood fill ends with an empty work set after at most n_cells
\* iterations: in every run of _bfs, whatever the pop order, no cell is taken
\* from the work set twice, and every cell taken is revealed at the end.
FloodFillPopsEachCellOnceHere ==
    ~NoObject =>
        \A row \in Rows, col \in Cols :
            LET i == get_index(row, col)
                runs == BfsRuns(b, {i}, n_cols, <<>>)
            IN  i \notin mines =>
                    /\ runs # {}
                    /\ \A r \in runs :
                          /\ Len(r.popped) <= get_num_spaces
                          /\ Cardinality(SeqToSet(r.popped)) = Len(r.popped)
                          /\ SeqToSet(r.popped) \subseteq CheckedSet(r.b)
                          /\ SeqToSet(r.popped) \cap mines = {}
\* C17: in every reachable state, no flood fill takes a cell twice.
C17_FloodFillPopsEachCellOnce == []FloodFillPopsEachCellOnceHere
C17_Witness ==
    /\ is_lose_state
    /\ get_num_spaces = 6
    /\ \E i \in Cells \ (mines \cup CheckedSet(b)) :
          \E r \in BfsRuns(b, {i}, n_cols, <<>>) : Len(r.popped) = 4

\* C18: no call changes where the mines are or the adjacency counts: every
\* step leaves the IS_MINE bit and the low-nibble count of every cell, the
\* length of the board and the mine set as they were, and the mine set has
\* n_mines elements.
C18_MinesAndCountsFixed ==
    [][/\ Len(b') = Len(b)
       /\ \A i \in Indices(b) :
             /\ is_mine(b', i) = is_mine(b, i)
             /\ adjacent_mines(b', i) = adjacent_mines(b, i)
       /\ mines' = mines
       /\ ~NoObject => Cardinality(mines') = n_mines']_vars
C18_Witness ==
    /\ is_win_state
    /\ FlaggedSet(b) # {}
    /\ UnsureSet(b) # {}
    /\ \E i \in CheckedSet(b) : adjacent_mines(b, i) >= 2

\* C19 as stated: tinymines's GameState uses one coordinate convention: on
\* every board, size_x = size_y or not, the neighbours _get_surrounding gives
\* for the cell _get_index(x, y) are exactly the cells _get_index(x2, y2) of
\* the grid with |x - x2| <= 1 and |y - y2| <= 1 other than the cell itself.
C19_TinyNeighboursMatchIndex ==
    ~NoObject =>
        \A x \in Rows, y \in Cols :
            SeqToSet(tiny_get_surrounding(tiny_get_index(x, y, n_cols), n_rows, get_num_spaces))
                = {tiny_get_index(p[1], p[2], n_cols) :
                      p \in {q \in Rows \X Cols :
                                /\ q # <<x, y>>
                                /\ Abs(x - q[1]) <= 1
                                /\ Abs(y - q[2]) <= 1}}

\* C20 as stated: the REPL forwards no out-of-range coordinate: whenever row
\* is outside 0..n_rows-1 or col is outside 0..n_cols-1, game_loop reports
\* "Coordinates out of board range." and calls none of the click methods.
C20_LoopForwardsOnlyInRange ==
    LoopRunning =>
        \A cmd \in Commands, row \in AnyRows, col \in AnyCols, policy \in PopPolicies :
            ~InGrid(row, col) => game_loop(cmd, row, col, policy) = Rejected

\* C21 as stated: under any sequence of calls the state only grows: every
\* step leaves each revealed cell revealed, and is_win_state() and
\* is_lose_state(), once true, stay true.
C21_RevealedWinLoseMonotone ==
    [][/\ \A i \in Indices(b) : is_checked(b, i) => is_checked(b', i)
       /\ is_win_state => win'
       /\ is_lose_state => lose']_vars

\* C22: reveals of non-mine cells commute.  click_space on a cell that is not
\* a mine leaves the board bfs gives and the win flag _check_win_state
\* computes from it; the two orders are run with the two pop policies.
\* C22 as stated: from any state and for any two non-mine cells, both orders
\* give the same cells and the same win flag, and the revealed set after both
\* is the union of the two cells' regions.
C22_RevealsCommuteToRegions ==
    ~NoObject =>
        \A i \in Cells \ mines :
            LET first_i == bfs(b, i, n_cols, "lowest")
                region_i == Region(i)
            IN  \A j \in Cells \ mines :
                    i < j =>
                        LET ij == bfs(first_i, j, n_cols, "lowest")
                            ji == bfs(bfs(b, j, n_cols, "highest"), i, n_cols, "highest")
                        IN  /\ ij = ji
                            /\ check_win_state(ij, mines) = check_win_state(ji, mines)
                            /\ CheckedSet(ij) = region_i \cup Region(j)
\* what the amended C22 says of the calls made from the current state
RevealsCommuteHere ==
    ~NoObject =>
        \A i \in Cells \ mines :
            LET first_i == bfs(b, i, n_cols, "lowest")
                revealed_i == CheckedSet(first_i)
            IN  /\ revealed_i = CheckedSet(b) \cup Region(i)
                /\ \A j \in Cells \ mines :
                      i < j =>
                          LET first_j == bfs(b, j, n_cols, "highest")
                              ij == bfs(first_i, j, n_cols, "lowest")
                              ji == bfs(first_j, i, n_cols, "highest")
                          IN  /\ ij = ji
                              /\ check_win_state(ij, mines) = check_win_state(ji, mines)
                              /\ CheckedSet(ij) = revealed_i \cup CheckedSet(first_j)
\* C22 amended: in every reachable state, both orders give the same cells and
\* the same win flag, and the revealed set after both is the union of the
\* revealed sets the two calls leave when made alone, each of which is the
\* revealed set before together with the cell's region.
C22_RevealsCommute == []RevealsCommuteHere
\* a state with a revealed cell from which two unrevealed cells with
\* different regions, one of them with count 0, remain to be clicked
C22_Witness ==
    /\ InProgress
    /\ CheckedSet(b) # {}
    /\ \E i \in Cells \ (mines \cup CheckedSet(b)), j \in Cells \ (mines \cup CheckedSet(b)) :
          /\ MineCount(i) = 0
          /\ j \notin Region(i)
          /\ CheckedSet(b) \cap Region(i) # {}

\* bd with the FLAGGED and UNSURE bits of every cell removed
Unmarked(bd) == [k \in 1..Len(bd) |-> bd[k] - MarkBits(bd, k - 1)]
\* what C23 says of the calls made from the current state
MarksDoNotAffectPlayHere ==
    ~NoObject =>
        LET plain == Unmarked(b)
        IN  \A row \in Rows, col \in Cols :
                LET i == get_index(row, col)
                    revealed == CheckedSet(bfs(plain, i, n_cols, "lowest"))
                IN  /\ \A r \in MarkCalls(row, col) \cup {click_clear(row, col)} :
                          /\ r.b = [b EXCEPT ![i + 1] = plain[i + 1] + MarkBits(r.b, i)]
                          /\ r.win = win
                          /\ r.lose = lose
                    /\ i \notin mines =>
                          \A r \in SpaceCalls(row, col) :
                              /\ i \in revealed
                              /\ CheckedSet(r.b) = revealed
                              /\ r.win = (mines = Cells \ revealed)
                              /\ r.lose = lose
\* C23: marking does not affect play, in every reachable state.  click_flag,
\* click_unsure and click_clear change nothing but the FLAGGED and UNSURE bits
\* of their target cell: every other cell, the target's other bits, win and
\* lose stay.  A marked cell is revealed like an unmarked one: click_space on
\* a non-mine cell reveals the cell itself and the same cells, with the same
\* win flag, as it does on the board with every mark removed.
C23_MarksDoNotAffectPlay == []MarksDoNotAffectPlayHere
\* an unrevealed cell with count 0 is flagged and has an unsure neighbour that
\* is not revealed either, while the mine carries no mark
C23_Witness ==
    /\ InProgress
    /\ \E i \in FlaggedSet(b) \ (mines \cup CheckedSet(b)) :
          /\ MineCount(i) = 0
          /\ \E j \in UnsureSet(b) \ (mines \cup CheckedSet(b)) : j \in Moore(i)
    /\ FlaggedSet(b) \cap mines = {}
====
